---- MODULE Spec2Model ----
(***************************************************************************)
(* Model of bayesian_ab_tester.py: the Monte Carlo oracle run_simulation,  *)
(* the sample-size search calculate_additional_sample_size and the driver  *)
(* main.  Interval widths are drawn from a small ordered set of integers   *)
(* (the oracle is a noisy black box: every width is possible at every      *)
(* call); counts and the target width are integers; search factors are     *)
(* exact fractions low_num/factor_den, high_num/factor_den.                *)
(***************************************************************************)
EXTENDS Integers, FiniteSets, Sequences, TLC

\* ---------------------------------------------------------------- bounds
MaxWidth == 2       \* widths the oracle can report: 0..MaxWidth
MaxTotal == 7       \* largest group-A total
MaxTotalB == 2      \* largest group-B total
MaxPrior == 2       \* largest configured / passed prior parameter

\* ------------------------------------------------------ program constants
N_SIMULATIONS == 100000        \* configuration default, --simulations
DefaultSimulations == 100000   \* run_simulation(n_simulations=100_000)
DefaultAlpha == 1              \* run_simulation(alpha_prior=1)
DefaultBeta == 1               \* run_simulation(beta_prior=1)
SearchSimulations == 50000     \* test_width's reduced simulation count
Iterations == 5                \* for _ in range(5)
RoundTo == 10                  \* math.ceil(x / 10) * 10

\* ------------------------------------------------------------ input sets
Widths == 0..MaxWidth
TargetWidths == {0 - MaxWidth, 0, 1, MaxWidth}
ATotals == {0, 1, MaxTotal}
BTotals == {0, MaxTotalB}
ASuccesses(t) == (0 - 1)..(t + 1)
BSuccesses(t) == 0..t
ConfigPriors == 1..MaxPrior
PriorArgs == 0..MaxPrior

\* ----------------------------------------------------------- arithmetic
\* math.ceil(n / d) for d > 0 (\div rounds towards minus infinity)
CeilDiv(n, d) == 0 - ((0 - n) \div d)

\* round(n / d) for d > 0: Python 3 rounds halves to the even neighbour
round(n, d) ==
    LET q == n \div d
        r == n % d
    IN  IF 2 * r < d THEN q
        ELSE IF 2 * r > d THEN q + 1
        ELSE IF q % 2 = 0 THEN q ELSE q + 1

abs(x) == IF x < 0 THEN 0 - x ELSE x

\* math.ceil((scaling_factor - 1) * total), scaling_factor = (cw / tw) ** 2
SeedAdditional(cw, tw, total) == CeilDiv((cw * cw - tw * tw) * total, tw * tw)

\* math.ceil(mid_factor * additional), mid_factor = num / den
MidAdditional(num, den, additional) == CeilDiv(num * additional, den)

\* math.ceil(best / 10) * 10
RoundDown10(best) == (best \div RoundTo) * RoundTo
RoundUp10(best) == CeilDiv(best, RoundTo) * RoundTo

\* if current_width <= target_width (line 136)
BelowTarget(w, tw) == w < tw
MeetsTarget(w, tw) == w <= tw

\* the adoption test of the refinement loop (line 189)
AdoptIfSmaller(w, best, tw) == w < best
AdoptIfCloser(w, best, tw) == abs(w - tw) < abs(best - tw)
Adopt(w, best, tw) == w < best /\ abs(w - tw) < abs(best - tw)

\* ---------------------------------------------------------------- oracle
\* How run_simulation ends for given arguments: numpy's beta sampler raises
\* ValueError for a non-positive shape parameter (group A is sampled first),
\* the conversion a_successes / a_total of the returned dict raises
\* ZeroDivisionError for a zero total; otherwise a summary is returned.
run_simulation(a_s, a_t, b_s, b_t, alpha, beta) ==
    IF a_s + alpha <= 0 \/ a_t - a_s + beta <= 0 THEN "ValueError"
    ELSE IF b_s + alpha <= 0 \/ b_t - b_s + beta <= 0 THEN "ValueError"
    ELSE IF a_t = 0 \/ b_t = 0 THEN "ZeroDivisionError"
    ELSE "ok"

Call(kind, a_s, a_t, b_s, b_t, n, alpha, beta) ==
    [kind |-> kind, a_successes |-> a_s, a_total |-> a_t,
     b_successes |-> b_s, b_total |-> b_t, n_simulations |-> n,
     alpha_prior |-> alpha, beta_prior |-> beta,
     outcome |-> run_simulation(a_s, a_t, b_s, b_t, alpha, beta)]

NoCall == Call("none", 0, 1, 0, 1, 0, 1, 1)

\* the prior calculate_additional_sample_size hands to the oracle
SearchAlpha(cfg_alpha) == DefaultAlpha
SearchBeta(cfg_beta) == DefaultBeta

\* test_width(additional_a, additional_b): the augmented oracle call
test_width(kind, a_s, a_t, b_s, b_t, add_a, add_b, cfg_alpha, cfg_beta) ==
    Call(kind, a_s + round(a_s * add_a, a_t), a_t + add_a,
         b_s + round(b_s * add_b, b_t), b_t + add_b,
         SearchSimulations, SearchAlpha(cfg_alpha), SearchBeta(cfg_beta))

NoEstimate ==
    [additional_samples_needed_a |-> 0, additional_samples_needed_b |-> 0,
     total_samples_a |-> 0, total_samples_b |-> 0, estimated_final_width |-> 0]

\* ----------------------------------------------------------------- state
VARIABLES
    entry,              \* which operation of the module was called
    pc,                 \* position of the run
    ALPHA_PRIOR, BETA_PRIOR,   \* the configuration section's prior
    a_successes, a_total, b_successes, b_total, target_width,
    results,            \* main: the reporting EffectSummary
    current_width, additional_a, additional_b,
    low_num, high_num, factor_den,   \* low_factor, high_factor as fractions
    best_additional_a, best_additional_b, best_width,
    iter,               \* completed passes of the for loop
    width,              \* width of the last midpoint candidate
    seed_width,         \* history: the width test_width returned for the seed
    sample_estimate,    \* the dict calculate_additional_sample_size returned
    ret_site,           \* which return statement of the search was taken
    verification_width, \* main: ci_width of the verification run
    error,              \* the exception that ended the run, or "none"
    search_calls,       \* run_simulation calls made by the search so far
    last_call           \* arguments and outcome of the latest run_simulation call

args == <<a_successes, a_total, b_successes, b_total, target_width>>
config == <<ALPHA_PRIOR, BETA_PRIOR>>
factors == <<low_num, high_num, factor_den>>
best == <<best_additional_a, best_additional_b, best_width>>
seed == <<additional_a, additional_b, seed_width>>
vars == <<entry, pc, config, args, results, current_width, seed, factors, best,
          iter, width, sample_estimate, ret_site, verification_width, error,
          search_calls, last_call>>

NoResults == [ci_width |-> 0, a_conversion |-> <<0, 1>>, b_conversion |-> <<0, 1>>]

\* the module once loaded, nothing called yet; the locals of the functions
\* are unbound until assigned (0 stands for unbound)
Loaded ==
    /\ entry = "none"
    /\ pc = "start"
    /\ a_successes = 0 /\ a_total = 0 /\ b_successes = 0 /\ b_total = 0
    /\ target_width = 0
    /\ results = NoResults
    /\ current_width = 0
    /\ additional_a = 0 /\ additional_b = 0 /\ seed_width = 0
    /\ low_num = 0 /\ high_num = 0 /\ factor_den = 1
    /\ best_additional_a = 0 /\ best_additional_b = 0 /\ best_width = 0
    /\ iter = 0
    /\ width = 0
    /\ sample_estimate = NoEstimate
    /\ ret_site = "none"
    /\ verification_width = 0
    /\ error = "none"
    /\ search_calls = 0
    /\ last_call = NoCall

\* where the run continues once the search has returned
AfterSearch(e) == IF e = "main" THEN "verify" ELSE "done"

\* an exception propagates: nothing catches it in the core
Raise(exc) == error' = exc /\ pc' = "failed"

\* ------------------------------------------------------------------ main
\* main, lines 411-433: print the inputs (the rates a_successes / a_total
\* and b_successes / b_total are formatted first), then the reporting run.
Main(a_s, a_t, b_s, b_t, tw) ==
    /\ pc = "start"
    /\ entry' = "main"
    /\ a_successes' = a_s /\ a_total' = a_t
    /\ b_successes' = b_s /\ b_total' = b_t
    /\ target_width' = tw
    /\ IF a_t = 0 \/ b_t = 0
       THEN /\ Raise("ZeroDivisionError")
            /\ UNCHANGED <<results, last_call>>
       ELSE LET c == Call("reporting", a_s, a_t, b_s, b_t, N_SIMULATIONS,
                          ALPHA_PRIOR, BETA_PRIOR)
            IN  /\ last_call' = c
                /\ IF c.outcome # "ok"
                   THEN Raise(c.outcome) /\ UNCHANGED results
                   ELSE /\ \E w \in Widths :
                              results' = [ci_width |-> w,
                                          a_conversion |-> <<a_s, a_t>>,
                                          b_conversion |-> <<b_s, b_t>>]
                        /\ pc' = "search"
                        /\ UNCHANGED error
    /\ UNCHANGED <<config, current_width, seed, factors, best, iter, width,
                   sample_estimate, ret_site, verification_width, search_calls>>

\* ---------------------------------------------------------------- search
\* calculate_additional_sample_size, lines 128-143: the rates, the baseline
\* run and the early return.
Baseline(e, a_s, a_t, b_s, b_t, tw) ==
    IF a_t = 0 \/ b_t = 0
    THEN /\ Raise("ZeroDivisionError")
         /\ UNCHANGED <<current_width, sample_estimate, ret_site,
                        search_calls, last_call>>
    ELSE LET c == Call("baseline", a_s, a_t, b_s, b_t, DefaultSimulations,
                       DefaultAlpha, DefaultBeta)
         IN  /\ last_call' = c
             /\ search_calls' = search_calls + 1
             /\ IF c.outcome # "ok"
                THEN /\ Raise(c.outcome)
                     /\ UNCHANGED <<current_width, sample_estimate, ret_site>>
                ELSE /\ UNCHANGED error
                     /\ \E w \in Widths :
                          /\ current_width' = w
                          /\ IF MeetsTarget(w, tw)
                             THEN /\ sample_estimate' =
                                       [additional_samples_needed_a |-> 0,
                                        additional_samples_needed_b |-> 0,
                                        total_samples_a |-> a_t,
                                        total_samples_b |-> b_t,
                                        estimated_final_width |-> w]
                                  /\ ret_site' = "baseline"
                                  /\ pc' = AfterSearch(e)
                             ELSE /\ pc' = "seed"
                                  /\ UNCHANGED <<sample_estimate, ret_site>>

\* calculate_additional_sample_size called directly
Search(a_s, a_t, b_s, b_t, tw) ==
    /\ pc = "start"
    /\ entry' = "search"
    /\ a_successes' = a_s /\ a_total' = a_t
    /\ b_successes' = b_s /\ b_total' = b_t
    /\ target_width' = tw
    /\ Baseline("search", a_s, a_t, b_s, b_t, tw)
    /\ UNCHANGED <<config, results, seed, factors, best, iter, width,
                   verification_width>>

\* main, lines 440-442: the call of calculate_additional_sample_size
MainSearch ==
    /\ pc = "search"
    /\ Baseline(entry, a_successes, a_total, b_successes, b_total, target_width)
    /\ UNCHANGED <<entry, config, args, results, seed, factors, best, iter,
                   width, verification_width>>

\* calculate_additional_sample_size, lines 145-179: the analytic seed, the
\* factor bounds and the seed candidate's evaluation.  A zero target makes
\* current_width / target_width infinite (a numpy float division) and
\* math.ceil of it raises OverflowError.
Seed ==
    /\ pc = "seed"
    /\ IF target_width = 0
       THEN /\ Raise("OverflowError")
            /\ UNCHANGED <<seed, factors, best, iter, search_calls, last_call>>
       ELSE LET add_a == SeedAdditional(current_width, target_width, a_total)
                add_b == SeedAdditional(current_width, target_width, b_total)
                c == test_width("seed", a_successes, a_total, b_successes,
                                b_total, add_a, add_b, ALPHA_PRIOR, BETA_PRIOR)
            IN  /\ additional_a' = add_a
                /\ additional_b' = add_b
                /\ low_num' = 7
                /\ factor_den' = 10
                /\ best_additional_a' = add_a
                /\ best_additional_b' = add_b
                /\ last_call' = c
                /\ search_calls' = search_calls + 1
                /\ iter' = 0
                /\ IF c.outcome # "ok"
                   THEN /\ Raise(c.outcome)
                        /\ high_num' = 13
                        /\ UNCHANGED <<best_width, seed_width>>
                   ELSE /\ \E w \in Widths :
                             /\ best_width' = w
                             /\ seed_width' = w
                             /\ high_num' = IF w > target_width THEN 20 ELSE 13
                        /\ pc' = "iterate"
                        /\ UNCHANGED error
    /\ UNCHANGED <<entry, config, args, results, current_width, width,
                   sample_estimate, ret_site, verification_width>>

\* one pass of the for loop, lines 182-197
Iterate ==
    /\ pc = "iterate"
    /\ iter < Iterations
    /\ LET mid_num == low_num + high_num
           mid_den == 2 * factor_den
           mid_additional_a == MidAdditional(mid_num, mid_den, additional_a)
           mid_additional_b == MidAdditional(mid_num, mid_den, additional_b)
           c == test_width("midpoint", a_successes, a_total, b_successes,
                           b_total, mid_additional_a, mid_additional_b,
                           ALPHA_PRIOR, BETA_PRIOR)
       IN  /\ last_call' = c
           /\ search_calls' = search_calls + 1
           /\ IF c.outcome # "ok"
              THEN /\ Raise(c.outcome)
                   /\ UNCHANGED <<factors, best, iter, width>>
              ELSE /\ UNCHANGED <<pc, error>>
                   /\ \E w \in Widths :
                        /\ width' = w
                        /\ IF Adopt(w, best_width, target_width)
                           THEN /\ best_width' = w
                                /\ best_additional_a' = mid_additional_a
                                /\ best_additional_b' = mid_additional_b
                           ELSE UNCHANGED best
                        /\ IF w > target_width
                           THEN low_num' = mid_num /\ high_num' = 2 * high_num
                           ELSE high_num' = mid_num /\ low_num' = 2 * low_num
                   /\ factor_den' = mid_den
                   /\ iter' = iter + 1
    /\ UNCHANGED <<entry, config, args, results, current_width, seed,
                   sample_estimate, ret_site, verification_width>>

\* lines 199-209: round both counts up to a multiple of 10 and return
Finish ==
    /\ pc = "iterate"
    /\ iter = Iterations
    /\ best_additional_a' = RoundUp10(best_additional_a)
    /\ best_additional_b' = RoundUp10(best_additional_b)
    /\ sample_estimate' =
           [additional_samples_needed_a |-> best_additional_a',
            additional_samples_needed_b |-> best_additional_b',
            total_samples_a |-> a_total + best_additional_a',
            total_samples_b |-> b_total + best_additional_b',
            estimated_final_width |-> best_width]
    /\ ret_site' = "search"
    /\ pc' = AfterSearch(entry)
    /\ UNCHANGED <<entry, config, args, results, current_width, seed, factors,
                   best_width, iter, width, verification_width, error,
                   search_calls, last_call>>

\* main, lines 447-463: the verification run at the recommended totals
Verify ==
    /\ pc = "verify"
    /\ IF sample_estimate.additional_samples_needed_a > 0
       THEN LET add_a == sample_estimate.additional_samples_needed_a
                add_b == sample_estimate.additional_samples_needed_b
                new_a_successes == round(results.a_conversion[1] * add_a,
                                         results.a_conversion[2])
                new_b_successes == round(results.b_conversion[1] * add_b,
                                         results.b_conversion[2])
                c == Call("verification", a_successes + new_a_successes,
                          a_total + add_a, b_successes + new_b_successes,
                          b_total + add_b, N_SIMULATIONS, DefaultAlpha,
                          DefaultBeta)
            IN  /\ last_call' = c
                /\ IF c.outcome # "ok"
                   THEN Raise(c.outcome) /\ UNCHANGED verification_width
                   ELSE /\ \E w \in Widths : verification_width' = w
                        /\ pc' = "done"
                        /\ UNCHANGED error
       ELSE /\ pc' = "done"
            /\ UNCHANGED <<verification_width, error, last_call>>
    /\ UNCHANGED <<entry, config, args, results, current_width, seed, factors,
                   best, iter, width, sample_estimate, ret_site, search_calls>>

\* run_simulation called directly with arbitrary arguments
Oracle(a_s, a_t, b_s, b_t, alpha, beta) ==
    /\ pc = "start"
    /\ entry' = "oracle"
    /\ a_successes' = a_s /\ a_total' = a_t
    /\ b_successes' = b_s /\ b_total' = b_t
    /\ LET c == Call("direct", a_s, a_t, b_s, b_t, DefaultSimulations,
                     alpha, beta)
       IN  /\ last_call' = c
           /\ IF c.outcome # "ok"
              THEN Raise(c.outcome) /\ UNCHANGED results
              ELSE /\ \E w \in Widths :
                        results' = [ci_width |-> w,
                                    a_conversion |-> <<a_s, a_t>>,
                                    b_conversion |-> <<b_s, b_t>>]
                   /\ pc' = "done"
                   /\ UNCHANGED error
    /\ UNCHANGED <<config, target_width, current_width, seed, factors, best,
                   iter, width, sample_estimate, ret_site, verification_width,
                   search_calls>>

CallMain ==
    \E a_t \in ATotals, b_t \in BTotals, tw \in TargetWidths :
        \E a_s \in ASuccesses(a_t), b_s \in BSuccesses(b_t) :
            Main(a_s, a_t, b_s, b_t, tw)

CallSearch ==
    \E a_t \in ATotals, b_t \in BTotals, tw \in TargetWidths :
        \E a_s \in ASuccesses(a_t), b_s \in BSuccesses(b_t) :
            Search(a_s, a_t, b_s, b_t, tw)

CallOracle ==
    \E a_t \in ATotals, b_t \in BTotals, alpha \in PriorArgs, beta \in PriorArgs :
        \E a_s \in ASuccesses(a_t), b_s \in BSuccesses(b_t) :
            Oracle(a_s, a_t, b_s, b_t, alpha, beta)

\* the configuration section as shipped: ALPHA_PRIOR = 1, BETA_PRIOR = 1
Init == Loaded /\ ALPHA_PRIOR = 1 /\ BETA_PRIOR = 1

\* the configuration section edited to any positive prior
InitConfigured == Loaded /\ ALPHA_PRIOR \in ConfigPriors /\ BETA_PRIOR \in ConfigPriors

\* calculate_additional_sample_size called by a client of the module
Next ==
    \/ CallSearch
    \/ Seed
    \/ Iterate
    \/ Finish

Spec == Init /\ [][Next]_vars

\* the script run from the command line
NextMain ==
    \/ CallMain
    \/ MainSearch
    \/ Seed
    \/ Iterate
    \/ Finish
    \/ Verify

SpecMain == InitConfigured /\ [][NextMain]_vars

\* run_simulation called by a client of the module
NextOracle == CallOracle

SpecOracle == Init /\ [][NextOracle]_vars

\* ------------------------------------------------------------ properties
\* the baseline run_simulation call of the search has returned a summary
BaselineReturned ==
    search_calls >= 1 /\ ~(last_call.kind = "baseline" /\ last_call.outcome # "ok")

\* the seed candidate's test_width call has returned a width
SeedReturned ==
    search_calls >= 2 /\ ~(last_call.kind = "seed" /\ last_call.outcome # "ok")

\* the run is over, by a return or by an exception
Ended == pc \in {"done", "failed"}

ValidCounts ==
    /\ a_total > 0 /\ 0 <= a_successes /\ a_successes <= a_total
    /\ b_total > 0 /\ 0 <= b_successes /\ b_successes <= b_total

\* x is best rounded up to the nearest multiple of 10
RoundedUpFrom(x, unrounded) ==
    x % RoundTo = 0 /\ x >= unrounded /\ x - unrounded < RoundTo

\* C1: whenever the baseline width is <= target_width the search returns at
\* once: zero additional samples for both groups, the totals unchanged, the
\* baseline width as estimated_final_width, and one oracle call in all.
C1_BaselineEarlyReturn ==
    (BaselineReturned /\ current_width <= target_width) =>
        /\ ret_site = "baseline"
        /\ sample_estimate.additional_samples_needed_a = 0
        /\ sample_estimate.additional_samples_needed_b = 0
        /\ sample_estimate.total_samples_a = a_total
        /\ sample_estimate.total_samples_b = b_total
        /\ sample_estimate.estimated_final_width = current_width
        /\ search_calls = 1
        /\ error = "none"

\* C1 witness: an early return taken at the boundary width = target
C1_Witness ==
    /\ ret_site = "baseline"
    /\ pc = "done"
    /\ current_width = target_width
    /\ a_total = MaxTotal

\* C2 (as claimed): a call with a_total = 0, b_total = 0 or target_width <= 0
\* fails before any oracle evaluation and returns no estimate.
C2_PreconditionRejected ==
    (entry = "search" /\ (a_total = 0 \/ b_total = 0 \/ target_width <= 0)) =>
        /\ error # "none"
        /\ search_calls = 0
        /\ ret_site = "none"

\* C3: on every return through the search (not the baseline early return)
\* each returned additional count is a multiple of 10, at least the unrounded
\* best count held at the end of the loop, and less than 10 above it.
C3_RoundingPolicy ==
    [][(ret_site = "none" /\ ret_site' = "search") =>
          /\ RoundedUpFrom(sample_estimate'.additional_samples_needed_a,
                           best_additional_a)
          /\ RoundedUpFrom(sample_estimate'.additional_samples_needed_b,
                           best_additional_b)]_vars

\* C3 witness: a search return whose counts were really rounded (the seed
\* counts are no multiples of 10, the returned ones are)
C3_Witness ==
    /\ ret_site = "search"
    /\ additional_a % RoundTo # 0
    /\ additional_b % RoundTo # 0
    /\ sample_estimate.additional_samples_needed_a > 0
    /\ sample_estimate.additional_samples_needed_a % RoundTo = 0
    /\ sample_estimate.additional_samples_needed_b % RoundTo = 0

\* C4 (as claimed): if the baseline width exceeds the target and every oracle
\* call returned, the run ends with an estimate from the search, whose
\* estimated_final_width exceeds the target when the best width does.
C4_NonConvergenceReturns ==
    (Ended /\ BaselineReturned /\ current_width > target_width
       /\ last_call.outcome = "ok") =>
        /\ ret_site = "search"
        /\ error = "none"
        /\ (best_width > target_width =>
                sample_estimate.estimated_final_width > target_width)

\* C5 (as claimed): a call whose baseline width exceeds the target always
\* runs to its return, after exactly 5 iterations and 7 oracle evaluations,
\* in the order baseline, seed, 5 midpoints.
C5_SevenEvaluations ==
    (BaselineReturned /\ current_width > target_width) =>
        /\ error = "none"
        /\ (last_call.kind = "baseline" => search_calls = 1)
        /\ (last_call.kind = "seed" => search_calls = 2)
        /\ (last_call.kind = "midpoint" => search_calls = 2 + iter)
        /\ (Ended => ret_site = "search" /\ iter = Iterations /\ search_calls = 7)

\* the arguments of a run_simulation call satisfy the sampler's precondition
ValidOracleInput(c) ==
    /\ c.a_total > 0 /\ 0 <= c.a_successes /\ c.a_successes <= c.a_total
    /\ c.b_total > 0 /\ 0 <= c.b_successes /\ c.b_successes <= c.b_total
    /\ c.alpha_prior > 0 /\ c.beta_prior > 0

\* C6 (as claimed): run_simulation rejects every input violating total > 0,
\* 0 <= successes <= total, alpha > 0, beta > 0 and returns no summary.
C6_OracleRejectsInvalid ==
    (last_call.kind = "direct" /\ ~ValidOracleInput(last_call)) =>
        last_call.outcome # "ok"

\* C7 (as claimed): with valid counts, every augmented observation that
\* test_width passes to the oracle satisfies 0 <= successes <= total.
C7_AugmentedObservationValid ==
    (ValidCounts /\ last_call.kind \in {"seed", "midpoint"}) =>
        /\ 0 <= last_call.a_successes
        /\ last_call.a_successes <= last_call.a_total
        /\ 0 <= last_call.b_successes
        /\ last_call.b_successes <= last_call.b_total

\* C8 (as claimed): within one run of main every oracle evaluation uses the
\* configured prior (ALPHA_PRIOR, BETA_PRIOR).
C8_PriorFixed ==
    (entry = "main" /\ last_call.kind # "none") =>
        /\ last_call.alpha_prior = ALPHA_PRIOR
        /\ last_call.beta_prior = BETA_PRIOR

\* C9: in each iteration the midpoint candidate replaces the best triple
\* exactly when its width is strictly smaller than the best width and
\* strictly closer to the target; otherwise the triple is unchanged.  So
\* best_width never increases and the returned estimated_final_width is
\* at most the seed candidate's width.
C9_AdoptionRule ==
    [][/\ (pc = "iterate" /\ iter' = iter + 1) =>
            /\ IF /\ width' < best_width
                  /\ abs(width' - target_width) < abs(best_width - target_width)
               THEN /\ best_width' = width'
                    /\ best_additional_a' = last_call'.a_total - a_total
                    /\ best_additional_b' = last_call'.b_total - b_total
               ELSE UNCHANGED best
            /\ best_width' <= best_width
            /\ best_width' <= seed_width
       /\ (ret_site' = "search" =>
              sample_estimate'.estimated_final_width <= seed_width')]_vars

\* C9 witness: a midpoint was adopted, and a later midpoint with a still
\* smaller width was not
C9_Witness ==
    /\ pc = "iterate"
    /\ iter >= 2
    /\ best_width < seed_width
    /\ width < best_width

\* C10: if the seed candidate's width is <= target_width no midpoint is ever
\* adopted: the best triple stays the seed's, and the search returns the
\* seed counts ceil((scaling_factor - 1) * total) rounded up to a multiple of
\* 10 with the seed's width as estimated_final_width.
C10_SeedMeetingTargetIsKept ==
    (SeedReturned /\ seed_width <= target_width) =>
        /\ best_width = seed_width
        /\ (ret_site = "none" =>
               /\ best_additional_a = additional_a
               /\ best_additional_b = additional_b)
        /\ (ret_site = "search" =>
               /\ RoundedUpFrom(sample_estimate.additional_samples_needed_a,
                                additional_a)
               /\ RoundedUpFrom(sample_estimate.additional_samples_needed_b,
                                additional_b)
               /\ sample_estimate.estimated_final_width = seed_width)

\* C10 witness: the search returned the seed although a later midpoint with
\* fewer samples reported a smaller width that met the target too
C10_Witness ==
    /\ ret_site = "search"
    /\ seed_width <= target_width
    /\ width < seed_width
    /\ last_call.a_total - a_total < additional_a

====
